---- MODULE Spec2Model ----
(***************************************************************************)
(* Model of the CS inquiry webhook server (src/main.py).                   *)
(*                                                                         *)
(* One behaviour is one request to POST /webhook: the body is parsed and   *)
(* normalised into a QnAPayload, a draft is generated by the completion    *)
(* service, a page is created in the record store, the page is patched     *)
(* with its own url, a notification is posted, and a response is sent.     *)
(* Requests share no state, so one request per behaviour loses nothing.    *)
(*                                                                         *)
(* Texts are sequences of tokens.  The tokens stand for these strings:     *)
(*   "O"  = "[신뢰도: "  (opening of a tag, with its trailing blank)        *)
(*   "Ob" = "[신뢰도:"   (the same after the trailing blank was stripped)    *)
(*   "H", "M", "L" = "높음", "보통", "낮음"                                  *)
(*   "C"  = "]"          "W" = one blank                                   *)
(*   "F"  = the fixed fallback text of generate_ai_draft                   *)
(* A tag starts with "[", which only starts the token O, so the tags occur *)
(* in a text exactly where the three-token sequences below occur in it.    *)
(***************************************************************************)
EXTENDS Integers, Sequences, FiniteSets, TLC

VARIABLES pc, coerce, raw_body, payload, completion, ai_draft, confidence,
          notion_result, calls, logs, response

vars == <<pc, coerce, raw_body, payload, completion, ai_draft, confidence,
          notion_result, calls, logs, response>>

\* ---------------------------------------------------------------- bounds
MaxKeys == 2      \* keys of the inbound JSON object that carry a value
MaxLen == 6       \* tokens of a completion text

\* ------------------------------------------------------- program constants
NotionTextCap == 2000
SlackDraftCap == 500
OK == 200
BadGateway == 502

\* ----------------------------------------------------------- JSON values
\* A JSON value is a record: its type and its printed form.
None == [t |-> "none", v |-> ""]
StrV(s) == [t |-> "str", v |-> s]
IntV(s) == [t |-> "int", v |-> s]
Obj == [t |-> "obj", v |-> "[1]"]

\* The values a key of the inbound body can carry.  raw_body.get(k) gives
\* None both for an absent key and for a null, so None stands for both.
PresentValues == {StrV(""), StrV("s"), StrV("7"), IntV("0"), IntV("5"), Obj}
Values == PresentValues \cup {None}

\* Python truthiness of a JSON value.
Truthy(x) == /\ x # None
             /\ x # StrV("")
             /\ x # IntV("0")

\* a or b, as Python evaluates it.
Or(a, b) == IF Truthy(a) THEN a ELSE b

Keys == {"qna_no", "no", "qnaNo", "title", "subject", "content", "body",
         "question", "writer_name", "nickname", "member_name", "name",
         "product_code", "prod_code", "productCode", "category", "type",
         "channel"}

RECURSIVE KeySetsUpTo(_)
KeySetsUpTo(n) ==
    IF n = 0 THEN {{}}
    ELSE LET P == KeySetsUpTo(n - 1)
         IN P \cup {s \cup {k} : s \in P, k \in Keys}

EmptyMapping == [k \in Keys |-> None]

\* The JSON object whose keys S carry the values g; the other keys are absent.
Body(S, g) == [k \in Keys |-> IF k \in S THEN g[k] ELSE None]

\* What request.json() gives: a JSON object, another JSON value (an array),
\* or an exception for a body that is not JSON.
ObjectRequest(b) == [kind |-> "object", map |-> b]
OtherRequests == {[kind |-> "array", map |-> EmptyMapping],
                  [kind |-> "nonjson", map |-> EmptyMapping]}

\* ------------------------------------------------------------ QnAPayload
Fields == {"qna_no", "title", "content", "writer_name", "product_code",
           "category", "channel"}

\* The mapping of aliases to fields built by webhook.
Mapped(b) ==
    [qna_no |-> Or(b["qna_no"], Or(b["no"], b["qnaNo"])),
     title |-> Or(b["title"], Or(b["subject"], StrV("(no title)"))),
     content |-> Or(b["content"], Or(b["body"], Or(b["question"], StrV("")))),
     writer_name |-> Or(b["writer_name"], Or(b["nickname"],
                        Or(b["member_name"], Or(b["name"], StrV("anonymous"))))),
     product_code |-> Or(b["product_code"], Or(b["prod_code"],
                         Or(b["productCode"], StrV("")))),
     category |-> Or(b["category"], Or(b["type"], StrV("etc"))),
     channel |-> Or(b["channel"], StrV("imwebQnA"))]

\* Validation of an Optional[int] field: None and integers pass, a string of
\* digits is converted, anything else is rejected.
IntFieldOk(x) == \/ x.t \in {"none", "int"}
                 \/ x = StrV("7")
IntField(x) == IF x.t = "str" THEN IntV(x.v) ELSE x

\* Validation of an Optional[str] field: None and strings pass; an integer
\* is converted to its printed form by a coercing validator (c) and rejected
\* by a strict one; arrays and objects are rejected.
StrFieldOk(x, c) == \/ x.t \in {"none", "str"}
                    \/ x.t = "int" /\ c
StrField(x) == IF x.t = "int" THEN StrV(x.v) ELSE x

QnAPayloadOk(m, c) ==
    /\ IntFieldOk(m.qna_no)
    /\ \A f \in Fields \ {"qna_no"} : StrFieldOk(m[f], c)

QnAPayload(m) ==
    [f \in Fields |-> IF f = "qna_no" THEN IntField(m[f]) ELSE StrField(m[f])]

NoPayload == [f \in Fields |-> None]

\* ----------------------------------------------------------------- texts
Alphabet == {"O", "H", "M", "L", "C", "W"}

RECURSIVE TextsUpTo(_)
TextsUpTo(n) ==
    IF n = 0 THEN {<<>>}
    ELSE LET P == TextsUpTo(n - 1)
         IN P \cup {Append(t, a) : t \in P, a \in Alphabet}

HighTag == <<"O", "H", "C">>
MediumTag == <<"O", "M", "C">>
LowTag == <<"O", "L", "C">>

FallbackDraft == <<"F">>

\* tag in s
Contains(s, tag) ==
    \E i \in 1..Len(s) : /\ i + Len(tag) - 1 <= Len(s)
                         /\ SubSeq(s, i, i + Len(tag) - 1) = tag

\* s.replace(tag, ""): one scan from the left, occurrences do not overlap.
RECURSIVE Replace(_, _)
Replace(s, tag) ==
    IF Len(s) < Len(tag) THEN s
    ELSE IF SubSeq(s, 1, Len(tag)) = tag
         THEN Replace(SubSeq(s, Len(tag) + 1, Len(s)), tag)
         ELSE <<Head(s)>> \o Replace(Tail(s), tag)

RECURSIVE LStrip(_)
LStrip(s) == IF s # <<>> /\ Head(s) = "W" THEN LStrip(Tail(s)) ELSE s

RECURSIVE RStrip(_)
RStrip(s) ==
    IF s = <<>> THEN s
    ELSE IF s[Len(s)] = "W" THEN RStrip(SubSeq(s, 1, Len(s) - 1))
    ELSE IF s[Len(s)] = "O" THEN SubSeq(s, 1, Len(s) - 1) \o <<"Ob">>
    ELSE s

\* s.strip()
Strip(s) == RStrip(LStrip(s))

\* s[:n]
Take(s, n) == IF Len(s) <= n THEN s ELSE SubSeq(s, 1, n)

\* The if / elif chain of generate_ai_draft.
ParseConfidenceLowFirst(draft) ==
    IF Contains(draft, LowTag) THEN "LOW"
    ELSE IF Contains(draft, HighTag) THEN "HIGH"
    ELSE "MEDIUM"

ParseConfidence(draft) ==
    IF Contains(draft, HighTag) THEN "HIGH"
    ELSE IF Contains(draft, LowTag) THEN "LOW"
    ELSE IF Contains(draft, MediumTag) THEN "MEDIUM"
    ELSE "MEDIUM"

\* The loop that removes the tags: high, medium, low, a strip after each.
RemoveTags(draft) ==
    Strip(Replace(Strip(Replace(Strip(Replace(draft, HighTag)),
                                MediumTag)), LowTag))

\* What the completion call gives: a text, or one of the errors.
Errors == {"network", "auth", "empty", "malformed"}
TextCompletion(t) == [ok |-> TRUE, text |-> t, err |-> ""]
ErrorCompletion(e) == [ok |-> FALSE, text |-> <<>>, err |-> e]
NoCompletion == [ok |-> FALSE, text |-> <<>>, err |-> "pending"]

AllCompletions == {TextCompletion(t) : t \in TextsUpTo(MaxLen)}

WebhookCompletions ==
    {ErrorCompletion(e) : e \in Errors}
    \cup {TextCompletion(t) : t \in
            {<<>>, <<"H">>, HighTag, MediumTag, LowTag,
             <<"H", "W">> \o LowTag, LowTag \o HighTag,
             <<"O", "O", "M", "C", "H", "C">>}}

generate_ai_draft_fallback_medium(c) ==
    IF c.ok
    THEN [draft |-> RemoveTags(c.text), confidence |-> ParseConfidence(c.text)]
    ELSE [draft |-> FallbackDraft, confidence |-> "MEDIUM"]

\* generate_ai_draft: every exception of the body is caught.
generate_ai_draft(c) ==
    IF c.ok
    THEN [draft |-> RemoveTags(c.text), confidence |-> ParseConfidence(c.text)]
    ELSE [draft |-> FallbackDraft, confidence |-> "LOW"]

\* ---------------------------------------------------------- record store
PageIds == {"p1", "p2"}
Urls == {"u1", "u2"}

\* The reply to an outbound HTTP call: an exception raised by the client, or
\* a response with a status and a body.
Reply(raised, status, json, data) ==
    [raised |-> raised, status |-> status, json |-> json, data |-> data]
NoBody == [k \in {} |-> ""]
NoReply == Reply(FALSE, 0, FALSE, NoBody)
Raised == Reply(TRUE, 0, FALSE, NoBody)

\* What the page-creation POST gives: a transport error raised by the HTTP
\* client, or a response with a status and a body.  The body is JSON or not;
\* a JSON body is a mapping that has, or lacks, the keys id and url.
StoreBodies ==
    {[k \in {"id", "url"} |-> IF k = "id" THEN p ELSE u] :
        p \in PageIds, u \in Urls}
    \cup {[k \in {"id"} |-> "p1"], [k \in {"url"} |-> "u1"]}

StoreResponses ==
    {Reply(FALSE, OK, TRUE, d) : d \in StoreBodies}
    \cup {Reply(FALSE, OK, FALSE, NoBody)}
    \cup {Reply(FALSE, st, TRUE,
                 [k \in {"id", "url"} |-> IF k = "id" THEN "p1" ELSE "u1"]) :
             st \in {400, 503}}
    \cup {Raised}

NoResult == [page_id |-> "", url |-> ""]

save_to_notion_ignores_status(resp) ==
    IF resp.raised THEN [outcome |-> "error", result |-> NoResult]
    ELSE IF ~resp.json \/ DOMAIN resp.data # {"id", "url"}
         THEN [outcome |-> "error", result |-> NoResult]
         ELSE [outcome |-> "return",
               result |-> [page_id |-> resp.data["id"],
                           url |-> resp.data["url"]]]

\* save_to_notion after the POST: HTTPException(502) for a status other than
\* 200; the exceptions of the client, of resp.json() and of data["id"],
\* data["url"] are not caught here.
save_to_notion(resp) ==
    IF resp.raised THEN [outcome |-> "error", result |-> NoResult]
    ELSE IF resp.status # OK THEN [outcome |-> "http502", result |-> NoResult]
    ELSE IF ~resp.json \/ DOMAIN resp.data # {"id", "url"}
         THEN [outcome |-> "error", result |-> NoResult]
         ELSE [outcome |-> "return",
               result |-> [page_id |-> resp.data["id"],
                           url |-> resp.data["url"]]]

\* ------------------------------------------------------------- responses
NoData == [qna_no |-> None, notion_page_id |-> "", notion_url |-> "",
           ai_confidence |-> ""]
NoResponse == [status |-> 0, detail |-> "", data |-> NoData]
\* An exception that leaves the handler: the framework answers 500.
Unhandled == [status |-> 500, detail |-> "Internal Server Error",
              data |-> NoData]
\* HTTPException(status_code=502, detail=...)
StorageFailed == [status |-> BadGateway, detail |-> "notion save failed",
                  data |-> NoData]
EnvelopeIdAsUrl(pl, res, conf) ==
    [status |-> OK, detail |-> "accepted",
     data |-> [qna_no |-> pl.qna_no, notion_page_id |-> res.page_id,
               notion_url |-> res.page_id, ai_confidence |-> conf]]

\* JSONResponse(status_code=200, content={...})
Envelope(pl, res, conf) ==
    [status |-> OK, detail |-> "accepted",
     data |-> [qna_no |-> pl.qna_no, notion_page_id |-> res.page_id,
               notion_url |-> res.url, ai_confidence |-> conf]]

\* An outbound call, as the log of calls records it.
Call(kind, draft, conf, page_id, url, reply) ==
    [kind |-> kind, draft |-> draft, confidence |-> conf,
     page_id |-> page_id, url |-> url, reply |-> reply]

\* ------------------------------------------------------------------ Init
Init ==
    /\ pc = "recv"
    /\ coerce \in BOOLEAN
    /\ \/ \E S \in KeySetsUpTo(MaxKeys) : \E g \in [S -> PresentValues] :
             raw_body = ObjectRequest(Body(S, g))
       \/ raw_body \in OtherRequests
    /\ payload = NoPayload
    /\ completion = NoCompletion
    /\ ai_draft = <<>>
    /\ confidence = ""
    /\ notion_result = NoResult
    /\ calls = <<>>
    /\ logs = <<>>
    /\ response = NoResponse

\* try: raw_body = await request.json()  except Exception: raw_body = {}
Receive ==
    /\ pc = "recv"
    /\ raw_body' = IF raw_body.kind = "nonjson"
                   THEN ObjectRequest(EmptyMapping)
                   ELSE raw_body
    /\ logs' = Append(logs, "INFO:received")
    /\ pc' = "normalize"
    /\ UNCHANGED <<coerce, payload, completion, ai_draft, confidence,
                   notion_result, calls, response>>

\* mapped = {...}; payload = QnAPayload(**mapped).  raw_body.get fails on a
\* body that is not a mapping, the constructor on a value it cannot
\* validate; neither exception is caught.  raw_body is not read afterwards:
\* a request that goes on forgets it.
Normalize ==
    /\ pc = "normalize"
    /\ IF /\ raw_body.kind = "object"
          /\ QnAPayloadOk(Mapped(raw_body.map), coerce)
       THEN /\ payload' = QnAPayload(Mapped(raw_body.map))
            /\ pc' = "generate"
            /\ response' = response
            /\ raw_body' = ObjectRequest(EmptyMapping)
       ELSE /\ payload' = payload
            /\ pc' = "done"
            /\ response' = Unhandled
            /\ raw_body' = raw_body
    /\ UNCHANGED <<coerce, completion, ai_draft, confidence, notion_result,
                   calls, logs>>

\* ai_draft, confidence = await generate_ai_draft(...)
GenerateStep(c) ==
    /\ pc = "generate"
    /\ completion' = c
    /\ ai_draft' = generate_ai_draft(c).draft
    /\ confidence' = generate_ai_draft(c).confidence
    /\ calls' = Append(calls, Call("draft", <<>>, "", "", "", NoReply))
    /\ logs' = Append(logs, IF c.ok THEN "INFO:draft" ELSE "ERROR:claude")
    /\ pc' = "store"
    /\ UNCHANGED <<coerce, raw_body, payload, notion_result, response>>

Generate == \E c \in WebhookCompletions : GenerateStep(c)

\* The same call, for a completion fixed beforehand.
GenerateGiven == GenerateStep(completion)

\* notion_result = await save_to_notion(payload, ai_draft, confidence)
Store ==
    /\ pc = "store"
    /\ \E resp \in StoreResponses :
         LET r == save_to_notion(resp) IN
           /\ calls' = Append(calls,
                  Call("create", Take(ai_draft, NotionTextCap), confidence,
                       "", "", resp))
           /\ notion_result' = r.result
           /\ CASE r.outcome = "return" ->
                     /\ pc' = "linkback"
                     /\ response' = response
                     /\ logs' = Append(logs, "INFO:notion")
                [] r.outcome = "http502" ->
                     /\ pc' = "done"
                     /\ response' = StorageFailed
                     /\ logs' = Append(logs, "ERROR:notion")
                [] OTHER ->
                     /\ pc' = "done"
                     /\ response' = Unhandled
                     /\ logs' = logs
    /\ UNCHANGED <<coerce, raw_body, payload, completion, ai_draft,
                   confidence>>

\* What the PATCH and the notification POST give.
HttpOutcomes == {Reply(FALSE, OK, FALSE, NoBody),
                 Reply(FALSE, 500, FALSE, NoBody), Raised}

\* try: await client.patch(...)  except Exception: logger.warning(...)
\* The status of the PATCH response is not read.
LinkBack ==
    /\ pc = "linkback"
    /\ \E out \in HttpOutcomes :
         /\ logs' = IF out.raised THEN Append(logs, "WARNING:linkback")
                    ELSE logs
         /\ calls' = Append(calls,
                Call("patch", <<>>, "", notion_result.page_id,
                     notion_result.url, out))
    /\ pc' = "notify"
    /\ UNCHANGED <<coerce, raw_body, payload, completion, ai_draft,
                   confidence, notion_result, response>>

NotifyRetry ==
    /\ pc = "notify"
    /\ \E out \in HttpOutcomes :
         LET c == Call("notify", Take(ai_draft, SlackDraftCap), confidence,
                       "", notion_result.url, out)
         IN
         /\ calls' = IF ~out.raised /\ out.status = OK THEN Append(calls, c)
                     ELSE Append(Append(calls, c), c)
         /\ logs' = CASE out.raised -> logs
                      [] out.status # OK -> Append(logs, "ERROR:slack")
                      [] OTHER -> Append(logs, "INFO:slack")
         /\ response' = IF out.raised THEN Unhandled
                        ELSE Envelope(payload, notion_result, confidence)
    /\ pc' = "done"
    /\ UNCHANGED <<coerce, raw_body, payload, completion, ai_draft,
                   confidence, notion_result>>

\* await send_slack_notification(...); return JSONResponse(200, ...).
\* A status other than 200 is logged; an exception of the POST is not caught.
Notify ==
    /\ pc = "notify"
    /\ \E out \in HttpOutcomes :
         /\ calls' = Append(calls,
                Call("notify", Take(ai_draft, SlackDraftCap), confidence,
                     "", notion_result.url, out))
         /\ logs' = CASE out.raised -> logs
                      [] out.status # OK -> Append(logs, "ERROR:slack")
                      [] OTHER -> Append(logs, "INFO:slack")
         /\ response' = IF out.raised THEN Unhandled
                        ELSE Envelope(payload, notion_result, confidence)
    /\ pc' = "done"
    /\ UNCHANGED <<coerce, raw_body, payload, completion, ai_draft,
                   confidence, notion_result>>

Next == \/ Receive
        \/ Normalize
        \/ Generate
        \/ Store
        \/ LinkBack
        \/ Notify

Spec == Init /\ [][Next]_vars

\* generate_ai_draft alone, over every text of at most MaxLen tokens, called
\* with the payload of an empty body.
InitDraft ==
    /\ pc = "generate"
    /\ coerce = FALSE
    /\ raw_body = ObjectRequest(EmptyMapping)
    /\ payload = QnAPayload(Mapped(EmptyMapping))
    /\ completion \in AllCompletions
    /\ ai_draft = <<>>
    /\ confidence = ""
    /\ notion_result = NoResult
    /\ calls = <<>>
    /\ logs = <<"INFO:received">>
    /\ response = NoResponse

NextDraft == GenerateGiven

SpecDraft == InitDraft /\ [][NextDraft]_vars

\* ============================================================ properties
Kinds == [i \in DOMAIN calls |-> calls[i].kind]
Made(kind) == \E i \in DOMAIN calls : calls[i].kind = kind
Failed(reply) == reply.raised \/ reply.status # OK
\* The reply to the page-creation call gives no usable record.
CreateFailed(reply) ==
    \/ Failed(reply)
    \/ ~reply.json
    \/ ~({"id", "url"} \subseteq DOMAIN reply.data)
Success == response.status = OK

\* C1: when the page-creation call is answered with a status other than 200,
\* the request ends with the 502 response, and neither the link-back PATCH
\* nor the notification POST is made.
C1_FatalShortCircuit ==
    \A i \in DOMAIN calls :
        (/\ calls[i].kind = "create"
         /\ ~calls[i].reply.raised
         /\ calls[i].reply.status # OK)
        => /\ pc = "done"
           /\ response = StorageFailed
           /\ ~Made("patch")
           /\ ~Made("notify")

C1_Witness ==
    /\ pc = "done"
    /\ completion.ok
    /\ ai_draft # <<>>
    /\ \E i \in DOMAIN calls : /\ calls[i].kind = "create"
                               /\ calls[i].reply.status = 503

\* C2: a request that made its page-creation call is answered 502 when that
\* call failed (status other than 200, exception of the client, or a body
\* without id or url), and 200 in every other case; no other status occurs.
C2_OnlyStoreFailureIs502 ==
    (pc = "done" /\ Made("create")) =>
        IF \E i \in DOMAIN calls : /\ calls[i].kind = "create"
                                   /\ CreateFailed(calls[i].reply)
        THEN response.status = BadGateway
        ELSE response.status = OK

\* C3: once the record is created, a failed notification (status other than
\* 200, or an exception of the client) leaves the 200 response in place.
C3_NotifyFailureIgnored ==
    (/\ pc = "done"
     /\ \E i \in DOMAIN calls : /\ calls[i].kind = "notify"
                                /\ Failed(calls[i].reply))
    => /\ Success
       /\ response = Envelope(payload, notion_result, confidence)

\* C4: an error of the completion call gives the fallback text with low
\* confidence, the request goes on, and the page-creation call is made with
\* that text and that confidence.
C4_FallbackThenStore ==
    (completion # NoCompletion /\ ~completion.ok)
    => /\ ai_draft = FallbackDraft
       /\ confidence = "LOW"
       /\ \/ pc = "store"
          \/ \E i \in DOMAIN calls : /\ calls[i].kind = "create"
                                     /\ calls[i].draft = FallbackDraft
                                     /\ calls[i].confidence = "LOW"

C4_Witness ==
    /\ completion = ErrorCompletion("network")
    /\ pc = "done"
    /\ Success
    /\ Made("create")

\* C5: a body that is a JSON object (or not JSON at all) is never rejected
\* by the normalisation: the request reaches the draft generation with a
\* payload whose six text fields are set.
C5_NormalizeNeverFails ==
    (raw_body.kind = "object" /\ pc \notin {"recv", "normalize"})
    => /\ pc = "generate" \/ Made("draft")
       /\ \A f \in Fields \ {"qna_no"} : payload[f].t = "str"

\* C6: for a text of the completion, the confidence is high when the high
\* tag occurs in it, else low when the low tag occurs, else medium.
Occurs(t, level) ==
    \E i \in 1..(Len(t) - 2) :
        t[i] = "O" /\ t[i + 1] = level /\ t[i + 2] = "C"

C6_ConfidencePriority ==
    (pc = "store" /\ completion.ok)
    => /\ Occurs(completion.text, "H") => confidence = "HIGH"
       /\ (~Occurs(completion.text, "H") /\ Occurs(completion.text, "L"))
            => confidence = "LOW"
       /\ (~Occurs(completion.text, "H") /\ ~Occurs(completion.text, "L"))
            => confidence = "MEDIUM"

C6_Witness ==
    /\ pc = "store"
    /\ completion.text = LowTag \o HighTag
    /\ confidence = "HIGH"

\* C7: the draft made from a text of the completion contains none of the
\* three tags and neither starts nor ends with a blank.
C7_NoTagLeft ==
    (pc = "store" /\ completion.ok)
    => /\ \A level \in {"H", "M", "L"} : ~Occurs(ai_draft, level)
       /\ ai_draft # <<>> => (Head(ai_draft) # "W"
                              /\ ai_draft[Len(ai_draft)] \notin {"W", "O"})

\* C8: the outbound calls are made in the order draft, create, patch,
\* notify, each at most once, and a request answered 200 made all four.
Order == <<"draft", "create", "patch", "notify">>

C9_LinkBackFailureIgnored ==
    (/\ pc = "done"
     /\ \E i \in DOMAIN calls : /\ calls[i].kind = "patch"
                                /\ Failed(calls[i].reply))
    => /\ \E i \in DOMAIN calls : /\ calls[i].kind = "notify"
                                  /\ calls[i].url = notion_result.url
       /\ Success

\* C10: a 200 response is sent only after a page-creation call answered 200;
\* its page id and url are those of that answer, the PATCH and the
\* notification carry that url, and its confidence is the one stored in the
\* record and shown in the notification.
C10_EnvelopeConsistent ==
    Success =>
        \E i, j, k \in DOMAIN calls :
            /\ calls[i].kind = "create"
            /\ calls[j].kind = "patch"
            /\ calls[k].kind = "notify"
            /\ calls[i].reply.status = OK
            /\ response.data.notion_page_id = calls[i].reply.data["id"]
            /\ response.data.notion_url = calls[i].reply.data["url"]
            /\ calls[j].url = calls[i].reply.data["url"]
            /\ calls[j].page_id = calls[i].reply.data["id"]
            /\ calls[k].url = calls[i].reply.data["url"]
            /\ response.data.ai_confidence = calls[i].confidence
            /\ response.data.ai_confidence = calls[k].confidence

C10_Witness ==
    /\ Success
    /\ response.data.notion_page_id = "p2"
    /\ response.data.notion_url = "u1"
    /\ response.data.ai_confidence = "HIGH"
====
